---- MODULE Spec2Model ----
(***************************************************************************)
(* php-fpm-queue-monitor (src/src/main.rs): a periodic agent that sums the *)
(* listen-queue lengths of the php-fpm containers of a host and reports    *)
(* the sum to CloudWatch.                                                  *)
(*                                                                         *)
(* Text is modelled as a sequence of one-character strings (bytes); the    *)
(* byte XFF stands for a byte that makes the text invalid UTF-8.  The      *)
(* output of an external command is a record                               *)
(*    [spawn |-> the command could be executed,                            *)
(*     success |-> its exit status is success,                             *)
(*     stdout |-> bytes].                                                  *)
(***************************************************************************)
EXTENDS Integers, Sequences, FiniteSets, TLC

----------------------------------------------------------------------------
(* Bounds of the model. *)

\* The largest number of containers `docker ps -q` lists in one tick.
MaxContainers == 3

\* The time, in seconds since main created its Interval, at which the clock of
\* the timed specification stops.
MaxTime == 25

----------------------------------------------------------------------------
(* Bytes, text and the std library calls the code applies to them. *)

XFF == "0xFF"

\* i32::MIN and i32::MAX
I32_MAX == 2147483647
I32_MIN == -I32_MAX - 1

\* char::is_whitespace, on the characters the model uses
is_whitespace(c) == c \in {" ", "\t", "\n", "\r"}

is_digit(c) == c \in {"0", "1", "2", "3", "4", "5", "6", "7", "8", "9"}

to_digit(c) ==
    CASE c = "0" -> 0 [] c = "1" -> 1 [] c = "2" -> 2 [] c = "3" -> 3
      [] c = "4" -> 4 [] c = "5" -> 5 [] c = "6" -> 6 [] c = "7" -> 7
      [] c = "8" -> 8 [] c = "9" -> 9

SetMin(S) == CHOOSE x \in S : \A y \in S : x <= y
SetMax(S) == CHOOSE x \in S : \A y \in S : x >= y

\* String::from_utf8(bytes).is_ok()
from_utf8_ok(bytes) == \A k \in 1..Len(bytes) : bytes[k] # XFF

\* str::trim
trim(s) ==
    LET keep == {k \in 1..Len(s) : ~is_whitespace(s[k])}
    IN  IF keep = {} THEN <<>> ELSE SubSeq(s, SetMin(keep), SetMax(keep))

\* str::lines: split at "\n", a "\r" right before the "\n" is dropped, and a
\* final line ending adds no empty line.
RECURSIVE lines(_)
lines(s) ==
    IF s = <<>> THEN <<>>
    ELSE LET nl == {k \in 1..Len(s) : s[k] = "\n"}
         IN  IF nl = {} THEN <<s>>
             ELSE LET k == SetMin(nl)
                      raw == SubSeq(s, 1, k - 1)
                      line == IF raw # <<>> /\ raw[Len(raw)] = "\r"
                                 THEN SubSeq(raw, 1, Len(raw) - 1)
                                 ELSE raw
                  IN  <<line>> \o lines(SubSeq(s, k + 1, Len(s)))

\* str::split_whitespace().collect()
RECURSIVE split_whitespace(_)
split_whitespace(s) ==
    LET keep == {k \in 1..Len(s) : ~is_whitespace(s[k])}
    IN  IF keep = {} THEN <<>>
        ELSE LET a == SetMin(keep)
                 ws == {k \in a..Len(s) : is_whitespace(s[k])}
                 b == IF ws = {} THEN Len(s) + 1 ELSE SetMin(ws)
             IN  <<SubSeq(s, a, b - 1)>> \o split_whitespace(SubSeq(s, b, Len(s)))

\* str::contains(pat)
contains(s, pat) ==
    \E k \in 0..(Len(s) - Len(pat)) : SubSeq(s, k + 1, k + Len(pat)) = pat

\* The checked accumulation of from_str_radix for a non-negative number:
\* acc * 10 + d for each digit d, or -1 once it would exceed i32::MAX.
RECURSIVE accumulate_pos(_, _)
accumulate_pos(s, acc) ==
    IF s = <<>> THEN acc
    ELSE LET d == to_digit(s[1])
         IN  IF acc > I32_MAX \div 10 \/ (acc = I32_MAX \div 10 /\ d > 7)
                THEN -1
                ELSE accumulate_pos(Tail(s), acc * 10 + d)

\* The same for a number written with "-": acc * 10 - d for each digit d, or
\* 1 once it would fall below i32::MIN.
RECURSIVE accumulate_neg(_, _)
accumulate_neg(s, acc) ==
    IF s = <<>> THEN acc
    ELSE LET d == to_digit(s[1])
         IN  IF acc < -(I32_MAX \div 10) \/ (acc = -(I32_MAX \div 10) /\ d > 8)
                THEN 1
                ELSE accumulate_neg(Tail(s), acc * 10 - d)

\* str::parse::<i32>: an optional sign, then one or more digits, in range.
\* [ok |-> it parsed, val |-> the number (0 when it did not parse)]
parse_i32(s) ==
    LET signed == s # <<>> /\ s[1] \in {"+", "-"}
        neg == s # <<>> /\ s[1] = "-"
        digits == IF signed THEN Tail(s) ELSE s
    IN  IF digits = <<>> \/ \E k \in 1..Len(digits) : ~is_digit(digits[k])
           THEN [ok |-> FALSE, val |-> 0]
        ELSE LET v == IF neg THEN accumulate_neg(digits, 0)
                             ELSE accumulate_pos(digits, 0)
             IN  IF (neg /\ v = 1) \/ (~neg /\ v = -1)
                    THEN [ok |-> FALSE, val |-> 0]
                    ELSE [ok |-> TRUE, val |-> v]

\* u32::MAX, as digits: 4294967295
U32_MAX_DIGITS == <<"4", "2", "9", "4", "9", "6", "7", "2", "9", "5">>

RECURSIVE strip_zeros(_)
strip_zeros(s) == IF s # <<>> /\ s[1] = "0" THEN strip_zeros(Tail(s)) ELSE s

\* str::parse::<u32>().is_ok(): an optional "+", then one or more digits, at
\* most u32::MAX (compared digit by digit: the number may not fit the checker).
parse_u32_ok(s) ==
    LET digits == IF s # <<>> /\ s[1] = "+" THEN Tail(s) ELSE s
        z == strip_zeros(digits)
    IN  /\ digits # <<>>
        /\ \A k \in 1..Len(digits) : is_digit(digits[k])
        /\ \/ Len(z) < 10
           \/ /\ Len(z) = 10
              /\ ~\E k \in 1..10 :
                    /\ to_digit(z[k]) > to_digit(U32_MAX_DIGITS[k])
                    /\ \A j \in 1..(k - 1) : z[j] = U32_MAX_DIGITS[j]

\* i32 addition as the build performs it: [overflow |-> the sum left 32
\* bits, val |-> the sum wrapped to 32 bits].
add_i32(a, b) ==
    IF a > 0 /\ b > 0 /\ a > I32_MAX - b
       THEN [overflow |-> TRUE, val |-> (a + I32_MIN) + (b + I32_MIN)]
    ELSE IF a < 0 /\ b < 0 /\ a < I32_MIN - b
       THEN [overflow |-> TRUE, val |-> (a - I32_MIN) + (b - I32_MIN)]
    ELSE [overflow |-> FALSE, val |-> a + b]

----------------------------------------------------------------------------
(* serde_json::from_str, on the fragment of JSON the model's inspect       *)
(* outputs are written in: null, true, false, integers, strings without    *)
(* escapes, and arrays of those.  A value is                               *)
(*    [kind |-> "null" | "bool" | "number" | "string" | "array" |          *)
(*              "invalid", str |-> a string's text, items |-> an array's   *)
(*      values].                                                           *)

JsonValue(kind, str, items) == [kind |-> kind, str |-> str, items |-> items]

json_integer(t) ==
    LET digits == IF t # <<>> /\ t[1] = "-" THEN Tail(t) ELSE t
    IN  /\ digits # <<>>
        /\ \A k \in 1..Len(digits) : is_digit(digits[k])
        /\ (Len(digits) > 1 => digits[1] # "0")

json_scalar(t) ==
    IF t = <<"n", "u", "l", "l">> THEN JsonValue("null", <<>>, <<>>)
    ELSE IF t = <<"t", "r", "u", "e">> \/ t = <<"f", "a", "l", "s", "e">>
       THEN JsonValue("bool", <<>>, <<>>)
    ELSE IF /\ Len(t) >= 2
            /\ t[1] = "\"" /\ t[Len(t)] = "\""
            /\ \A k \in 2..(Len(t) - 1) : t[k] \notin {"\"", "\t", "\n", "\r"}
       THEN JsonValue("string", SubSeq(t, 2, Len(t) - 1), <<>>)
    ELSE IF json_integer(t) THEN JsonValue("number", <<>>, <<>>)
    ELSE JsonValue("invalid", <<>>, <<>>)

\* The elements of an array's text: split at the commas outside strings.
RECURSIVE split_commas(_, _, _)
split_commas(s, cur, in_str) ==
    IF s = <<>> THEN <<cur>>
    ELSE IF s[1] = "\"" THEN split_commas(Tail(s), Append(cur, s[1]), ~in_str)
    ELSE IF s[1] = "," /\ ~in_str THEN <<cur>> \o split_commas(Tail(s), <<>>, FALSE)
    ELSE split_commas(Tail(s), Append(cur, s[1]), in_str)

json_from_str(s) ==
    IF Len(s) >= 2 /\ s[1] = "[" /\ s[Len(s)] = "]"
       THEN LET inner == SubSeq(s, 2, Len(s) - 1)
                elems == split_commas(inner, <<>>, FALSE)
                items == [k \in 1..Len(elems) |-> json_scalar(trim(elems[k]))]
            IN  IF trim(inner) = <<>> THEN JsonValue("array", <<>>, <<>>)
                ELSE IF \E k \in 1..Len(items) : items[k].kind = "invalid"
                   THEN JsonValue("invalid", <<>>, <<>>)
                ELSE JsonValue("array", <<>>, items)
       ELSE json_scalar(s)

----------------------------------------------------------------------------
(* The functions of main.rs that read a command's output.  A Result is     *)
(* [ok |-> TRUE, val |-> v] for Ok(v) and [ok |-> FALSE, val |-> a         *)
(* placeholder] for Err.                                                   *)

Ok(v) == [ok |-> TRUE, val |-> v]
Err(placeholder) == [ok |-> FALSE, val |-> placeholder]

\* "php-fpm"
PHP_FPM == <<"p", "h", "p", "-", "f", "p", "m">>

\* "/var/run/php-fpm/www.socket"
SOCKET_PATH ==
    <<"/", "v", "a", "r", "/", "r", "u", "n", "/">> \o PHP_FPM
        \o <<"/", "w", "w", "w", ".", "s", "o", "c", "k", "e", "t">>

\* get_docker_container_ids with a failed listing read as an empty one (as
\* with unwrap_or_default in place of `?` and bail!).
get_docker_container_ids_lenient(output) ==
    IF ~output.spawn \/ ~output.success \/ ~from_utf8_ok(output.stdout)
       THEN Ok(<<>>)
       ELSE LET ls == lines(output.stdout)
                kept == SelectSeq(ls, LAMBDA line : trim(line) # <<>>)
            IN  Ok([k \in 1..Len(kept) |-> trim(kept[k])])

\* get_docker_container_ids, given the output of `docker ps -q`
get_docker_container_ids(output) ==
    IF ~output.spawn THEN Err(<<>>)
    ELSE IF ~output.success THEN Err(<<>>)
    ELSE IF ~from_utf8_ok(output.stdout) THEN Err(<<>>)
    ELSE LET ls == lines(output.stdout)
             kept == SelectSeq(ls, LAMBDA line : trim(line) # <<>>)
         IN  Ok([k \in 1..Len(kept) |-> trim(kept[k])])

\* is_php_fpm_container with the marker looked for inside each token.
is_php_fpm_container_substring(output) ==
    IF ~output.spawn THEN Err(FALSE)
    ELSE IF ~output.success THEN Ok(FALSE)
    ELSE IF ~from_utf8_ok(output.stdout) THEN Err(FALSE)
    ELSE LET cmd == json_from_str(trim(output.stdout))
         IN  IF cmd.kind = "invalid" THEN Err(FALSE)
             ELSE IF cmd.kind = "array"
                THEN Ok(\E k \in 1..Len(cmd.items) :
                            /\ cmd.items[k].kind = "string"
                            /\ contains(cmd.items[k].str, PHP_FPM))
             ELSE Ok(FALSE)

\* is_php_fpm_container, given the output of
\* `docker inspect <id> --format {{json .Config.Cmd}}`
is_php_fpm_container(output) ==
    IF ~output.spawn THEN Err(FALSE)
    ELSE IF ~output.success THEN Ok(FALSE)
    ELSE IF ~from_utf8_ok(output.stdout) THEN Err(FALSE)
    ELSE LET cmd == json_from_str(trim(output.stdout))
         IN  IF cmd.kind = "invalid" THEN Err(FALSE)
             ELSE IF cmd.kind = "array"
                THEN Ok(\E k \in 1..Len(cmd.items) :
                            /\ cmd.items[k].kind = "string"
                            /\ cmd.items[k].str = PHP_FPM)
             ELSE Ok(FALSE)

\* The loop over the lines of the socket listing in
\* get_container_queue_length, and the Ok(0) after it.
RECURSIVE scan_ss_output(_)
scan_ss_output(ls) ==
    IF ls = <<>> THEN 0
    ELSE LET line == Head(ls)
             parts == split_whitespace(line)
         IN  IF /\ contains(line, SOCKET_PATH)
                /\ Len(parts) >= 3
                /\ parse_i32(parts[3]).ok
                THEN parse_i32(parts[3]).val
                ELSE scan_ss_output(Tail(ls))

\* get_container_queue_length, given the output of
\* `docker inspect -f {{.State.Pid}} <id>` and that of
\* `sudo nsenter -t <pid> -n ss -lxnH` (run only once the PID is parsed).
get_container_queue_length(pid_output, output) ==
    IF ~pid_output.spawn THEN Err(0)
    ELSE IF ~pid_output.success THEN Err(0)
    ELSE IF ~from_utf8_ok(pid_output.stdout) THEN Err(0)
    ELSE IF ~parse_u32_ok(trim(pid_output.stdout)) THEN Err(0)
    ELSE IF ~output.spawn THEN Err(0)
    ELSE IF ~output.success THEN Ok(0)
    ELSE IF ~from_utf8_ok(output.stdout) THEN Err(0)
    ELSE Ok(scan_ss_output(lines(output.stdout)))

\* Whether get_container_queue_length gets as far as running nsenter.
pid_resolved(pid_output) ==
    /\ pid_output.spawn
    /\ pid_output.success
    /\ from_utf8_ok(pid_output.stdout)
    /\ parse_u32_ok(trim(pid_output.stdout))

----------------------------------------------------------------------------
(* What the external commands may answer. *)

Output(spawn, success, stdout) ==
    [spawn |-> spawn, success |-> success, stdout |-> stdout]

\* The command could not be executed (Command::output() is Err).
SpawnFailure == Output(FALSE, FALSE, <<>>)
\* The command ran and exited with a non-success status.
ExitFailure == Output(TRUE, FALSE, <<>>)
\* The command succeeded and wrote bytes that are not UTF-8.
NotUtf8 == Output(TRUE, TRUE, <<"c", XFF, "\n">>)
Stdout(text) == Output(TRUE, TRUE, text)

NL == <<"\n">>
SP == <<" ">>

\* The identifier of the k-th container: "c1", "c2", ...
ContainerId(k) == <<"c", <<"1", "2", "3", "4", "5", "6", "7", "8", "9">>[k]>>

RECURSIVE PsText(_)
PsText(k) == IF k = 0 THEN <<>> ELSE PsText(k - 1) \o ContainerId(k) \o NL

\* `docker ps -q`: failures, k identifiers one per line, and a listing of two
\* identifiers with padding, a blank line and a "\r\n" line ending.
PsOutputs ==
    {SpawnFailure, ExitFailure, NotUtf8}
        \cup {Stdout(PsText(k)) : k \in 0..MaxContainers}
        \cup {Stdout(SP \o ContainerId(1) \o SP \o NL \o NL \o <<"\t">>
                        \o ContainerId(2) \o <<"\r", "\n">>)}

Quoted(t) == <<"\"">> \o t \o <<"\"">>

\* `docker inspect <id> --format {{json .Config.Cmd}}`
InspectOutputs ==
    {SpawnFailure, ExitFailure, NotUtf8,
     \* oops  (not JSON)
     Stdout(<<"o", "o", "p", "s">> \o NL),
     \* ["php-fpm"  (not JSON: the array is not closed)
     Stdout(<<"[">> \o Quoted(PHP_FPM) \o NL),
     \* null  (the image sets no command)
     Stdout(<<"n", "u", "l", "l">> \o NL),
     \* "php-fpm"  (a string, not an array)
     Stdout(Quoted(PHP_FPM) \o NL),
     \* ["nginx","-g"]
     Stdout(<<"[">> \o Quoted(<<"n", "g", "i", "n", "x">>) \o <<",">>
                \o Quoted(<<"-", "g">>) \o <<"]">> \o NL),
     \* ["php-fpm-worker"]
     Stdout(<<"[">> \o Quoted(PHP_FPM \o <<"-", "w", "o", "r", "k", "e", "r">>)
                \o <<"]">> \o NL),
     \* ["php"]
     Stdout(<<"[">> \o Quoted(<<"p", "h", "p">>) \o <<"]">> \o NL),
     \* ["php-fpm"]
     Stdout(<<"[">> \o Quoted(PHP_FPM) \o <<"]">> \o NL),
     \* ["tini", "php-fpm"]
     Stdout(<<"[">> \o Quoted(<<"t", "i", "n", "i">>) \o <<",", " ">>
                \o Quoted(PHP_FPM) \o <<"]">> \o NL)}

\* `docker inspect -f {{.State.Pid}} <id>`
PidOutputs ==
    {SpawnFailure, ExitFailure, NotUtf8,
     Stdout(<<"-", "1">> \o NL),
     Stdout(<<"4", "2", "4", "2">> \o NL)}

\* One line of `ss -lxnH`: Netid State Recv-Q Send-Q Local Peer
SsLine(recv_q, path) ==
    <<"u", "_", "s", "t", "r">> \o SP \o <<"L", "I", "S", "T", "E", "N">> \o SP
        \o recv_q \o SP \o <<"5", "1", "1">> \o SP \o path \o SP
        \o <<"9", "0", "1">> \o SP \o <<"*">> \o SP \o <<"0">> \o NL

OTHER_PATH == <<"/", "r", "u", "n", "/", "x", ".", "s", "o", "c", "k">>

\* The Recv-Q column of the lines of the model's listings.
Q_ZERO == <<"0">>
Q_FIVE == <<"5">>
Q_SEVEN == <<"7">>
Q_MINUS == <<"-", "5">>
Q_MAX == <<"2", "1", "4", "7", "4", "8", "3", "6", "4", "7">>
Q_TOO_BIG == <<"2", "1", "4", "7", "4", "8", "3", "6", "4", "8">>
Q_WORD == <<"x">>

\* The listings `sudo nsenter -t <pid> -n ss -lxnH` may print.
SsTexts ==
    {<<>>,
     SsLine(<<"9">>, OTHER_PATH),
     SsLine(Q_ZERO, SOCKET_PATH),
     SsLine(Q_FIVE, SOCKET_PATH),
     SsLine(<<"9">>, OTHER_PATH) \o SsLine(Q_FIVE, SOCKET_PATH),
     SsLine(Q_MINUS, SOCKET_PATH),
     SsLine(Q_MAX, SOCKET_PATH),
     SsLine(Q_TOO_BIG, SOCKET_PATH),
     SsLine(Q_WORD, SOCKET_PATH),
     \* the socket path alone on its line: no third field
     SOCKET_PATH \o NL,
     \* two lines for the socket, the first without a number
     SsLine(Q_WORD, SOCKET_PATH) \o SsLine(Q_SEVEN, SOCKET_PATH),
     \* two lines for the socket, both with a number
     SsLine(Q_FIVE, SOCKET_PATH) \o SsLine(Q_SEVEN, SOCKET_PATH),
     \* a longer path that starts with the socket's
     SsLine(Q_SEVEN, SOCKET_PATH \o <<".", "b", "a", "k">>)}

SsOutputs == {SpawnFailure, ExitFailure, NotUtf8} \cup {Stdout(t) : t \in SsTexts}

----------------------------------------------------------------------------
(* The state. *)

VARIABLES
    pc,               \* where main is: "interval_tick" (line 64),
                      \* "get_docker_container_ids" (line 97),
                      \* "is_php_fpm_container" (line 101),
                      \* "get_container_queue_length" (line 102),
                      \* "collect_and_send_metrics" (line 81), "panicked"
    dry_run,          \* args.dry_run
    overflow_checks,  \* the build panics on integer overflow (a debug build)
    container_ids,    \* the Vec that get_docker_container_ids returned
    i,                \* the position of the for loop in container_ids
    total_queue_len,  \* the running sum of collect_php_fpm_queue_length
    \* What the tick in progress (or the last one) saw and did:
    ps_output,        \* the output of `docker ps -q`, <<>> before it ran
    io,               \* the outputs of the commands run for the container
                      \* handled last: [inspect, pid, ss], each <<>> or <<out>>
    history,          \* per container handled, what the code made of it
    aggregate,        \* <<v>> once collect_php_fpm_queue_length returned Ok(v)
    sink,             \* the values put_metric_data was called with
    would_send,       \* the values of the "Would send metric" log lines
    result,           \* "none" | "ok" | "err" | "panic": how the tick ended
    sink_called,      \* put_metric_data was called since the process started
    \* The functions and the timer that are checked by themselves:
    call,             \* the function applied and its arguments, <<>> when none
    returned,         \* <<>>, or <<what the function of `call` returned>>
    timer             \* the clock and tokio's Interval, <<>> when time is
                      \* left out

\* The state of main's loop and of the tick in progress.
loop_vars == <<pc, dry_run, overflow_checks, container_ids, i, total_queue_len,
               ps_output, io, history, aggregate, sink, would_send, result,
               sink_called>>

\* The state of the functions and of the timer checked by themselves.
apart == <<call, returned, timer>>

vars == <<loop_vars, apart>>

config == <<dry_run, overflow_checks>>

NoIo == [inspect |-> <<>>, pid |-> <<>>, ss |-> <<>>]

Handled(classified, sampled, queue_len) ==
    [classified |-> classified, sampled |-> sampled, queue_len |-> queue_len]

\* main before its first interval.tick(), with no container seen yet.
LoopInit ==
    /\ pc = "interval_tick"
    /\ dry_run \in BOOLEAN
    /\ overflow_checks \in BOOLEAN
    /\ container_ids = <<>>
    /\ i = 1
    /\ total_queue_len = 0
    /\ ps_output = <<>>
    /\ io = NoIo
    /\ history = <<>>
    /\ aggregate = <<>>
    /\ sink = <<>>
    /\ would_send = <<>>
    /\ result = "none"
    /\ sink_called = FALSE

Init ==
    /\ LoopInit
    /\ call = <<>>
    /\ returned = <<>>
    /\ timer = <<>>

----------------------------------------------------------------------------
(* The operations. *)

\* main with `?` on the tick's result: an Err leaves the loop and main.
main_match_propagating(r) == IF r = "err" THEN "exited" ELSE "interval_tick"

\* main going on to the next tick's enumeration without being back at
\* interval.tick() first.
main_match_no_wait(r) == "get_docker_container_ids"

\* collect_and_send_metrics with `>= 0` for `> 0`.
emission_of_zero(total, dry) ==
    IF total >= 0 THEN (IF dry THEN "log" ELSE "send") ELSE "none"

\* collect_and_send_metrics without the dry-run branch.
emission_ignoring_dry_run(total, dry) == IF total > 0 THEN "send" ELSE "none"

\* main, lines 66-71: where the loop goes once collect_and_send_metrics
\* returned r ("ok" or "err"): both arms fall through to the next
\* interval.tick().
main_match(r) == "interval_tick"

\* collect_and_send_metrics, lines 84-91: what is done with the total.
emission(total, dry) ==
    IF total > 0 THEN (IF dry THEN "log" ELSE "send") ELSE "none"

\* send_cloudwatch_metric with put_metric_data called a second time when the
\* first call failed.
send_cloudwatch_metric_retrying(calls, value, sent) ==
    IF sent THEN [calls |-> Append(calls, value), ok |-> TRUE]
            ELSE [calls |-> Append(Append(calls, value), value), ok |-> FALSE]

\* send_cloudwatch_metric, lines 227-245: put_metric_data is called once with
\* the value, and its failure is returned: [calls |-> the calls the sink has
\* received, ok |-> the function returned Ok].
send_cloudwatch_metric(calls, value, sent) ==
    [calls |-> Append(calls, value), ok |-> sent]

\* collect_php_fpm_queue_length, lines 100-107: after the container at
\* position k - 1, the loop goes on with the next one or the function returns
\* Ok(total) to collect_and_send_metrics.
loop_pc(k, ids) ==
    IF k > Len(ids) THEN "collect_and_send_metrics" ELSE "is_php_fpm_container"
loop_aggregate(k, ids, total) == IF k > Len(ids) THEN <<total>> ELSE <<>>

\* The running sum of a tick starting from what the tick before left.
total_queue_len_carried(previous) == previous

\* collect_php_fpm_queue_length, line 98: `let mut total_queue_len = 0`, a
\* local of the call, whatever the call before it computed.
total_queue_len_init(previous) == 0

\* Line 64: interval.tick() completes and a tick starts.
IntervalTick ==
    /\ pc = "interval_tick"
    /\ pc' = "get_docker_container_ids"
    /\ container_ids' = <<>>
    /\ i' = 1
    /\ total_queue_len' = total_queue_len_init(total_queue_len)
    /\ ps_output' = <<>>
    /\ io' = NoIo
    /\ history' = <<>>
    /\ aggregate' = <<>>
    /\ sink' = <<>>
    /\ would_send' = <<>>
    /\ result' = "none"
    /\ UNCHANGED apart
    /\ UNCHANGED <<config, sink_called>>

\* Lines 97-98: the containers are enumerated; an Err leaves
\* collect_php_fpm_queue_length and collect_and_send_metrics through `?`.
GetDockerContainerIds ==
    /\ pc = "get_docker_container_ids"
    /\ \E output \in PsOutputs :
          LET r == get_docker_container_ids(output)
          IN  /\ ps_output' = <<output>>
              /\ IF r.ok
                    THEN /\ container_ids' = r.val
                         /\ total_queue_len' = 0
                         /\ i' = 1
                         /\ pc' = loop_pc(1, r.val)
                         /\ aggregate' = loop_aggregate(1, r.val, 0)
                         /\ result' = result
                    ELSE /\ result' = "err"
                         /\ pc' = main_match("err")
                         /\ UNCHANGED <<container_ids, total_queue_len, i, aggregate>>
    /\ UNCHANGED apart
    /\ UNCHANGED <<config, io, history, sink, would_send, sink_called>>

\* Line 101: the container at position i is classified.
IsPhpFpmContainer ==
    /\ pc = "is_php_fpm_container"
    /\ \E output \in InspectOutputs :
          LET r == is_php_fpm_container(output)
          IN  /\ io' = [inspect |-> <<output>>, pid |-> <<>>, ss |-> <<>>]
              /\ IF ~r.ok
                    THEN /\ history' = Append(history, Handled("err", "no", 0))
                         /\ result' = "err"
                         /\ pc' = main_match("err")
                         /\ UNCHANGED <<i, aggregate>>
                    ELSE IF r.val
                    THEN /\ pc' = "get_container_queue_length"
                         /\ UNCHANGED <<history, result, i, aggregate>>
                    ELSE /\ history' = Append(history, Handled("false", "no", 0))
                         /\ i' = i + 1
                         /\ pc' = loop_pc(i + 1, container_ids)
                         /\ aggregate' = loop_aggregate(i + 1, container_ids, total_queue_len)
                         /\ result' = result
    /\ UNCHANGED apart
    /\ UNCHANGED <<config, container_ids, total_queue_len, ps_output, sink,
                   would_send, sink_called>>

\* Lines 102-103: the container at position i is sampled and its queue
\* length added to the total.  When the sum leaves 32 bits, a build with
\* overflow checks panics and any other wraps.
GetContainerQueueLength ==
    /\ pc = "get_container_queue_length"
    /\ \E pid_output \in PidOutputs, output \in SsOutputs :
          LET r == get_container_queue_length(pid_output, output)
              sum == add_i32(total_queue_len, r.val)
          IN  /\ io' = [io EXCEPT !.pid = <<pid_output>>,
                                  !.ss = IF pid_resolved(pid_output)
                                            THEN <<output>> ELSE <<>>]
              /\ IF ~r.ok
                    THEN /\ history' = Append(history, Handled("true", "err", 0))
                         /\ result' = "err"
                         /\ pc' = main_match("err")
                         /\ UNCHANGED <<i, aggregate, total_queue_len>>
                    ELSE IF sum.overflow /\ overflow_checks
                    THEN /\ history' = Append(history, Handled("true", "ok", r.val))
                         /\ result' = "panic"
                         /\ pc' = "panicked"
                         /\ UNCHANGED <<i, aggregate, total_queue_len>>
                    ELSE /\ history' = Append(history, Handled("true", "ok", r.val))
                         /\ total_queue_len' = sum.val
                         /\ i' = i + 1
                         /\ pc' = loop_pc(i + 1, container_ids)
                         /\ aggregate' = loop_aggregate(i + 1, container_ids, sum.val)
                         /\ result' = result
    /\ UNCHANGED apart
    /\ UNCHANGED <<config, container_ids, ps_output, sink, would_send, sink_called>>

\* Lines 81-93, with send_cloudwatch_metric (lines 237-245): the total is
\* sent, logged or dropped; put_metric_data may fail.
CollectAndSendMetrics ==
    /\ pc = "collect_and_send_metrics"
    /\ \E sent \in BOOLEAN :
          LET what == emission(total_queue_len, dry_run)
              send == send_cloudwatch_metric(sink, total_queue_len, sent)
              r == IF what = "send" /\ ~send.ok THEN "err" ELSE "ok"
          IN  /\ sink' = IF what = "send" THEN send.calls ELSE sink
              /\ sink_called' = (sink_called \/ what = "send")
              /\ would_send' = IF what = "log" THEN Append(would_send, total_queue_len)
                                               ELSE would_send
              /\ result' = r
              /\ pc' = main_match(r)
    /\ UNCHANGED apart
    /\ UNCHANGED <<config, container_ids, i, total_queue_len, ps_output, io,
                   history, aggregate>>

Next ==
    \/ IntervalTick
    \/ GetDockerContainerIds
    \/ IsPhpFpmContainer
    \/ GetContainerQueueLength
    \/ CollectAndSendMetrics

Spec == Init /\ [][Next]_vars

\* Every external command returns and the timer fires: a step that can be
\* taken is taken.
FairSpec == Spec /\ WF_vars(Next)

----------------------------------------------------------------------------
(* collect_php_fpm_queue_length as a function of what the commands answer  *)
(* for each container, applied to one enumeration in two orders.           *)

\* What the three commands answer for one container.
Answers(inspect, pid, ss) == [inspect |-> inspect, pid |-> pid, ss |-> ss]

INSPECT_PHP_FPM == Stdout(<<"[">> \o Quoted(PHP_FPM) \o <<"]">> \o NL)
INSPECT_NGINX ==
    Stdout(<<"[">> \o Quoted(<<"n", "g", "i", "n", "x">>) \o <<",">>
               \o Quoted(<<"-", "g">>) \o <<"]">> \o NL)
PID_4242 == Stdout(<<"4", "2", "4", "2">> \o NL)

\* A container that is not php-fpm, one whose inspection cannot be executed,
\* one whose PID is not found, one whose listing cannot be executed, and
\* php-fpm containers with Recv-Q 0, 5, -5 and 2147483647.
ContainerAnswers ==
    {Answers(INSPECT_NGINX, PID_4242, Stdout(<<>>)),
     Answers(SpawnFailure, PID_4242, Stdout(<<>>)),
     Answers(INSPECT_PHP_FPM, ExitFailure, Stdout(<<>>)),
     Answers(INSPECT_PHP_FPM, PID_4242, SpawnFailure)}
        \cup {Answers(INSPECT_PHP_FPM, PID_4242, Stdout(SsLine(q, SOCKET_PATH))) :
                 q \in {Q_ZERO, Q_FIVE, Q_MINUS, Q_MAX}}

\* collect_php_fpm_queue_length, lines 98-107, for the containers whose
\* answers are `answers`, in that order, from the running sum `total`:
\* [kind |-> "ok" (Ok(val)) | "err" | "panic", val |-> the total].
RECURSIVE collect_loop(_, _, _)
collect_loop(answers, total, checks) ==
    IF answers = <<>> THEN [kind |-> "ok", val |-> total]
    ELSE LET a == Head(answers)
             is_php_fpm == is_php_fpm_container(a.inspect)
             queue_len == get_container_queue_length(a.pid, a.ss)
             sum == add_i32(total, queue_len.val)
         IN  IF ~is_php_fpm.ok THEN [kind |-> "err", val |-> 0]
             ELSE IF ~is_php_fpm.val THEN collect_loop(Tail(answers), total, checks)
             ELSE IF ~queue_len.ok THEN [kind |-> "err", val |-> 0]
             ELSE IF sum.overflow /\ checks THEN [kind |-> "panic", val |-> 0]
             ELSE collect_loop(Tail(answers), sum.val, checks)

\* What a tick makes of the containers: the aggregate (<<>> when none is
\* returned) and what collect_and_send_metrics does with it.
tick_outcome(answers, checks, dry) ==
    LET r == collect_loop(answers, 0, checks)
    IN  [aggregate |-> IF r.kind = "ok" THEN <<r.val>> ELSE <<>>,
         emission |-> IF r.kind = "ok" THEN emission(r.val, dry) ELSE "none"]

\* The orders of n containers.
Orders(n) == {p \in [1..n -> 1..n] : \A a, b \in 1..n : p[a] = p[b] => a = b}

Reordered(answers, p) == [k \in 1..Len(answers) |-> answers[p[k]]]

\* The answers of up to MaxContainers containers and an order of them.
OrderInit ==
    /\ LoopInit
    /\ returned = <<>>
    /\ timer = <<>>
    /\ \E n \in 0..MaxContainers :
          call \in [fn : {"collect_php_fpm_queue_length"},
                    answers : [1..n -> ContainerAnswers],
                    order : Orders(n)]

\* The tick is run on the containers as listed and as reordered.
CollectInBothOrders ==
    /\ call # <<>> /\ call.fn = "collect_php_fpm_queue_length"
    /\ returned = <<>>
    /\ returned' = <<[listed |-> tick_outcome(call.answers, overflow_checks, dry_run),
                      reordered |-> tick_outcome(Reordered(call.answers, call.order),
                                                 overflow_checks, dry_run)]>>
    /\ UNCHANGED <<loop_vars, call, timer>>

OrderSpec == OrderInit /\ [][CollectInBothOrders]_vars

----------------------------------------------------------------------------
(* send_cloudwatch_metric on its own (lines 206-246): the dimensions it    *)
(* builds from args.dimension and the call it makes.                       *)

MaxDimensions == 2

\* str::rsplit_once: the split at the last occurrence of c.
split_once_last(s, c) ==
    LET at == {k \in 1..Len(s) : s[k] = c}
    IN  IF at = {} THEN [some |-> FALSE, key |-> <<>>, value |-> <<>>]
        ELSE [some |-> TRUE,
              key |-> SubSeq(s, 1, SetMax(at) - 1),
              value |-> SubSeq(s, SetMax(at) + 1, Len(s))]

\* str::split_once (line 215): the split at the first occurrence of c, None
\* when s has none.
split_once(s, c) ==
    LET at == {k \in 1..Len(s) : s[k] = c}
    IN  IF at = {} THEN [some |-> FALSE, key |-> <<>>, value |-> <<>>]
        ELSE [some |-> TRUE,
              key |-> SubSeq(s, 1, SetMin(at) - 1),
              value |-> SubSeq(s, SetMin(at) + 1, Len(s))]

\* Lines 211-225: the loop over args.dimension.  [dimensions |-> the Vec
\* built, warned |-> the strings of the warn! lines].
RECURSIVE parse_dimensions(_)
parse_dimensions(dimension) ==
    IF dimension = <<>> THEN [dimensions |-> <<>>, warned |-> <<>>]
    ELSE LET dimension_str == Head(dimension)
             pair == split_once(dimension_str, "=")
             rest == parse_dimensions(Tail(dimension))
         IN  IF pair.some
                THEN [dimensions |-> <<[name |-> trim(pair.key),
                                        value |-> trim(pair.value)]>>
                                      \o rest.dimensions,
                      warned |-> rest.warned]
                ELSE [dimensions |-> rest.dimensions,
                      warned |-> <<dimension_str>> \o rest.warned]

\* Values of --dimension.
DimensionStrings ==
    {<<"e", "n", "v", "=", "p", "r", "o", "d">>,
     <<"m", "a", "l", "f", "o", "r", "m", "e", "d">>,
     <<"a", "=", "b", "=", "c">>,
     <<" ", "k", " ", "=", " ", "v", " ">>,
     <<"=", "x">>,
     <<"k", "=">>}

\* A positive total to send with dry-run disabled, and the --dimension list.
DimensionInit ==
    /\ LoopInit
    /\ ~dry_run
    /\ returned = <<>>
    /\ timer = <<>>
    /\ \E n \in 0..MaxDimensions :
          call \in [fn : {"send_cloudwatch_metric"},
                    dimension : [1..n -> DimensionStrings],
                    value : {parse_i32(q).val : q \in {Q_FIVE, Q_SEVEN}}]

\* send_cloudwatch_metric runs: the datum is built and put_metric_data is
\* called, and succeeds or fails.
SendCloudwatchMetric ==
    /\ call # <<>> /\ call.fn = "send_cloudwatch_metric"
    /\ returned = <<>>
    /\ \E sent \in BOOLEAN :
          LET parsed == parse_dimensions(call.dimension)
              send == send_cloudwatch_metric(<<>>, call.value, sent)
          IN  returned' = <<[dimensions |-> parsed.dimensions,
                             warned |-> parsed.warned,
                             calls |-> send.calls,
                             ok |-> send.ok]>>
    /\ UNCHANGED <<loop_vars, call, timer>>

DimensionSpec == DimensionInit /\ [][SendCloudwatchMetric]_vars

----------------------------------------------------------------------------
(* main's loop with time: tokio's Interval (lines 61 and 64) and ticks     *)
(* whose work takes any number of seconds.  timer is                       *)
(*    [now |-> the clock, deadline |-> the instant the Interval fires      *)
(*     next, running |-> a tick is in progress, started |-> when the last  *)
(*     tick started (-1: none yet), boundary |-> the deadline that tick    *)
(*     consumed, previous |-> when the tick before it started (-1: none)]. *)

\* args.interval, by default
INTERVAL == 10

\* Interval::tick: the deadline that follows `timeout` when the tick
\* completes at `now`.  time::interval leaves the Interval with
\* MissedTickBehavior::Burst, which keeps to the original schedule however
\* late the tick is.
next_timeout(timeout, now, period) == timeout + period

\* time::interval(period): the first tick completes at once.
TimerInit ==
    /\ LoopInit
    /\ call = <<>>
    /\ returned = <<>>
    /\ timer = [now |-> 0, deadline |-> 0, running |-> FALSE, started |-> -1,
                boundary |-> -1, previous |-> -1]

\* Line 64: interval.tick().await completes, at the deadline or, when the
\* deadline has passed, at once; the tick's work starts.
TimerFires ==
    /\ ~timer.running
    /\ timer.now >= timer.deadline
    /\ timer' = [timer EXCEPT !.running = TRUE,
                              !.started = timer.now,
                              !.boundary = timer.deadline,
                              !.previous = timer.started,
                              !.deadline = next_timeout(timer.deadline, timer.now, INTERVAL)]
    /\ UNCHANGED <<loop_vars, call, returned>>

\* Lines 66-71: collect_and_send_metrics returns and main is back at
\* interval.tick().
TickReturns ==
    /\ timer.running
    /\ timer' = [timer EXCEPT !.running = FALSE]
    /\ UNCHANGED <<loop_vars, call, returned>>

\* A second passes, while a tick works or main waits for the deadline.
TimePasses ==
    /\ timer.now < MaxTime
    /\ timer.running \/ timer.now < timer.deadline
    /\ timer' = [timer EXCEPT !.now = timer.now + 1]
    /\ UNCHANGED <<loop_vars, call, returned>>

TimerNext == TimerFires \/ TickReturns \/ TimePasses

TimerSpec == TimerInit /\ [][TimerNext]_vars

----------------------------------------------------------------------------
(* Vocabulary of the properties. *)

\* An integer of any size as q * 2^31 + r with 0 <= r < 2^31: sums of i32
\* values are compared exactly, without leaving 32 bits.
Widen(x) == IF x >= 0 THEN [q |-> 0, r |-> x] ELSE [q |-> -1, r |-> x - I32_MIN]

WideAdd(a, b) ==
    IF a.r > I32_MAX - b.r
       THEN [q |-> a.q + b.q + 1, r |-> (a.r + I32_MIN) + b.r]
       ELSE [q |-> a.q + b.q, r |-> a.r + b.r]

\* The exact sum of the queue lengths sampled from the containers of h.
RECURSIVE ExactSum(_)
ExactSum(h) ==
    IF h = <<>> THEN Widen(0)
    ELSE WideAdd(IF Head(h).sampled = "ok" THEN Widen(Head(h).queue_len) ELSE Widen(0),
                 ExactSum(Tail(h)))

\* The tick returned to main's loop, with Ok or with Err.
TickEnded == result \in {"ok", "err"}

\* `docker ps -q` ran in this tick and could not be executed or exited with a
\* non-success status.
EnumerationFailed ==
    ps_output # <<>> /\ (~ps_output[1].spawn \/ ~ps_output[1].success)

\* `docker ps -q` ran in this tick and get_docker_container_ids returned Ok.
EnumerationSucceeded ==
    ps_output # <<>> /\ get_docker_container_ids(ps_output[1]).ok

\* The containers of this tick whose classification or sampling returned Err.
FailedContainers ==
    {k \in 1..Len(history) :
        history[k].classified = "err" \/ history[k].sampled = "err"}

\* The container handled last was handed to the sampler, whose result is the
\* last entry of the history.
Sampled == io.pid # <<>> /\ history # <<>>
LastHandled == history[Len(history)]

----------------------------------------------------------------------------
(* The properties. *)

\* C1: in a tick whose enumeration succeeded and in which one container's
\* classification or sampling failed, the tick is not aborted: once it has
\* ended, every enumerated container was handled, an aggregate was returned,
\* and the aggregate is the exact sum of the queue lengths of the other
\* containers (the failed one counting zero).
C1_FailureIsIsolated ==
    (TickEnded /\ EnumerationSucceeded /\ Cardinality(FailedContainers) = 1)
        => /\ Len(history) = Len(container_ids)
           /\ aggregate # <<>>
           /\ Widen(aggregate[1]) = ExactSum(history)

\* C2: when `docker ps -q` cannot be executed or exits with a non-success
\* status, the tick is abandoned: it ends in an error with no container
\* classified or sampled, no aggregate, and nothing sent or logged as a value.
C2_EnumerationFailureAbandonsTick ==
    EnumerationFailed
        => /\ result = "err"
           /\ pc = "interval_tick"
           /\ container_ids = <<>>
           /\ history = <<>>
           /\ io = NoIo
           /\ aggregate = <<>>
           /\ sink = <<>>
           /\ would_send = <<>>

\* C2's case: a tick ended by an enumeration that exited with a failure.
C2_Witness == ps_output = <<ExitFailure>> /\ result = "err"

\* C3: whenever a tick has ended, with Ok or with Err, main is back at
\* interval.tick() and a next tick eventually starts.
C3_LoopGoesOn ==
    [](TickEnded => (pc = "interval_tick" /\ <>(pc = "get_docker_container_ids")))

\* C3's case: a tick ended by a failed put_metric_data, main waiting for the
\* next tick.
C3_Witness == result = "err" /\ sink # <<>> /\ pc = "interval_tick"

\* C4: in a tick that ended with dry-run disabled and a strictly positive
\* aggregate, put_metric_data was called exactly once, with the aggregate;
\* every enumerated container was handled, none that the classifier rejected
\* was sampled, and the aggregate is the exact sum of the queue lengths
\* sampled from the containers it accepted.
C4_SendsTheSum ==
    (TickEnded /\ ~dry_run /\ aggregate # <<>> /\ aggregate[1] > 0)
        => /\ sink = <<aggregate[1]>>
           /\ Len(history) = Len(container_ids)
           /\ \A k \in 1..Len(history) :
                 history[k].classified = "false" => history[k].sampled = "no"
           /\ Widen(aggregate[1]) = ExactSum(history)

\* Every enumerated container was handled without an error and yielded a
\* queue length of zero (or was rejected and yielded none).
AllYieldZero ==
    /\ EnumerationSucceeded
    /\ Len(history) = Len(container_ids)
    /\ pc \in {"collect_and_send_metrics", "interval_tick"}
    /\ \A k \in 1..Len(history) :
          /\ history[k].classified # "err"
          /\ history[k].sampled # "err"
          /\ history[k].queue_len = 0

\* C5: in a tick in which every container yields a queue length of zero (an
\* empty enumeration included) the aggregate is zero, put_metric_data is not
\* called, no would-send value is logged, and the tick ends with Ok.
C5_ZeroIsSilent ==
    AllYieldZero
        => /\ aggregate = <<0>>
           /\ sink = <<>>
           /\ would_send = <<>>
           /\ (pc = "interval_tick" => result = "ok")

\* C5's case: a tick ended in which a container was sampled and yielded zero.
C5_Witness ==
    /\ AllYieldZero
    /\ TickEnded
    /\ \E k \in 1..Len(history) : history[k].sampled = "ok"

\* C6: with dry-run enabled put_metric_data is never called, in this tick or
\* in an earlier one, and a tick that ended with a positive aggregate logged
\* exactly that value.
C6_DryRunNeverSends ==
    dry_run
        => /\ ~sink_called
           /\ sink = <<>>
           /\ (TickEnded /\ aggregate # <<>> /\ aggregate[1] > 0
                  => would_send = <<aggregate[1]>>)

\* C6's case: a dry-run tick that ended with a positive aggregate.
C6_Witness ==
    dry_run /\ TickEnded /\ aggregate # <<>> /\ aggregate[1] > 0

\* The inspection of a container failed, or its output is not UTF-8, not
\* JSON, or not a JSON array.
InspectionUnusable(output) ==
    \/ ~output.spawn
    \/ ~output.success
    \/ ~from_utf8_ok(output.stdout)
    \/ json_from_str(trim(output.stdout)).kind # "array"

\* C7: when the inspection of a container fails or its output cannot be
\* parsed as a command, the classifier returns false and not an error: the
\* container is recorded as rejected and the tick goes on.
C7_ClassifierNeverFails ==
    (io.inspect # <<>> /\ InspectionUnusable(io.inspect[1]))
        => /\ history # <<>>
           /\ LastHandled.classified = "false"
           /\ result # "err"

\* C8: when the PID of a container was resolved and the nsenter/ss call
\* cannot be executed, exits with a non-success status or prints bytes that
\* are not UTF-8, the sampler returns a queue length of zero and not an error.
C8_ListingFailureIsZero ==
    (Sampled /\ io.ss # <<>>
        /\ (~io.ss[1].spawn \/ ~io.ss[1].success \/ ~from_utf8_ok(io.ss[1].stdout)))
        => /\ LastHandled.sampled = "ok"
           /\ LastHandled.queue_len = 0

\* The lines of a listing that match the socket path, in order.
MatchingLines(text) ==
    SelectSeq(lines(text), LAMBDA line : contains(line, SOCKET_PATH))

\* The third whitespace-delimited field of a line, <<>> when it has none.
ThirdField(line) ==
    IF Len(split_whitespace(line)) >= 3 THEN split_whitespace(line)[3] ELSE <<>>

\* C9: for a listing that was obtained: with no matching line the sample is
\* zero; when the third field of the matching line (the first one, when
\* several match) is missing or no integer the sample is zero; when it is a
\* non-negative integer the sample is that integer.
C9_ParsingRobustness ==
    (Sampled /\ io.ss # <<>> /\ io.ss[1].spawn /\ io.ss[1].success
        /\ from_utf8_ok(io.ss[1].stdout))
        => LET matching == MatchingLines(io.ss[1].stdout)
               field == parse_i32(ThirdField(matching[1]))
           IN  /\ LastHandled.sampled = "ok"
               /\ (matching = <<>> => LastHandled.queue_len = 0)
               /\ (matching # <<>> /\ ~field.ok => LastHandled.queue_len = 0)
               /\ (matching # <<>> /\ field.ok /\ field.val >= 0
                      => LastHandled.queue_len = field.val)

\* C10: every queue length the sampler returns is >= 0, and so are the
\* running sum and the aggregate.
C10_NonNegative ==
    /\ \A k \in 1..Len(history) : history[k].queue_len >= 0
    /\ total_queue_len >= 0
    /\ (aggregate # <<>> => aggregate[1] >= 0)

\* C11: the tick run on one enumeration in two orders, each container
\* answering the same in both, returns the same aggregate (or none in both)
\* and makes the same decision to send, log or drop it.
C11_OrderIndependent ==
    returned # <<>> => returned[1].listed = returned[1].reordered

\* C12: ticks do not catch up.  A tick may start late, at once after a tick
\* that overran, but the interval boundary it starts on is then one that
\* passed while that tick ran: boundaries older than the start of the tick
\* before never start a tick.
C12_NoCatchUp == timer.previous >= 0 => timer.boundary > timer.previous

\* The last tick returned Ok with all of its work done: every enumerated
\* container handled, the aggregate returned, and the aggregate sent or
\* logged when that was due.
TickCompleted ==
    /\ result = "ok"
    /\ Len(history) = Len(container_ids)
    /\ aggregate # <<>>
    /\ (emission(aggregate[1], dry_run) = "send" => sink = <<aggregate[1]>>)
    /\ (emission(aggregate[1], dry_run) = "log" => would_send = <<aggregate[1]>>)

\* C13: ticks never overlap.  The enumeration of a tick begins only from
\* interval.tick(), and only when no tick has run yet or the tick before has
\* completed all of its work or has failed.
C13_TicksNeverOverlap ==
    [][pc' = "get_docker_container_ids"
          => /\ pc = "interval_tick"
             /\ (ps_output = <<>> \/ result = "err" \/ TickCompleted)]_vars

\* C13's case: a tick begins after a tick that sent its aggregate.
C13_Witness == pc = "get_docker_container_ids" /\ sink_called

\* The tick ended in the error of a failed put_metric_data.
EmissionFailed == result = "err" /\ sink # <<>>

\* C14: put_metric_data is called at most once in a tick, and once with the
\* aggregate in every tick that ended with a positive aggregate and dry-run
\* disabled; after a tick whose call failed, main is at interval.tick() and
\* its next step starts a tick that has called nothing yet.
C14_OneCallPerTick ==
    /\ [](/\ Len(sink) <= 1
          /\ (TickEnded /\ ~dry_run /\ aggregate # <<>> /\ aggregate[1] > 0
                 => sink = <<aggregate[1]>>))
    /\ [][EmissionFailed
             => /\ pc = "interval_tick"
                /\ pc' = "get_docker_container_ids"
                /\ sink' = <<>>
                /\ result' = "none"]_vars

\* C14's case: a tick in which the one call of put_metric_data failed.
C14_Witness == EmissionFailed /\ Len(sink) = 1 /\ sink = aggregate /\ ~dry_run

\* The container handled last has been classified and not yet sampled.
JustClassified == io.inspect # <<>> /\ io.pid = <<>>

\* The launch command that `docker inspect` printed is a sequence of tokens
\* one of which is the marker itself.
HasMarkerToken(output) ==
    /\ output.spawn /\ output.success /\ from_utf8_ok(output.stdout)
    /\ LET cmd == json_from_str(trim(output.stdout))
       IN  /\ cmd.kind = "array"
           /\ \E k \in 1..Len(cmd.items) :
                 cmd.items[k].kind = "string" /\ cmd.items[k].str = PHP_FPM

\* C15: a container is handed to the sampler (classified as php-fpm) if and
\* only if its launch command is a token sequence with a token equal to
\* "php-fpm"; a token that only contains the marker does not classify it.
C15_MarkerExactness ==
    JustClassified
        => ((pc = "get_container_queue_length") <=> HasMarkerToken(io.inspect[1]))

\* C15's case: a command that mentions the marker inside a longer token, or
\* outside a token sequence, was classified as not php-fpm.
C15_Witness ==
    /\ JustClassified
    /\ io.inspect[1].spawn /\ io.inspect[1].success
    /\ contains(io.inspect[1].stdout, PHP_FPM)
    /\ history # <<>> /\ LastHandled.classified = "false"

\* The i32 x is the integer w (in the form of Widen), modulo 2^32.
Congruent32(x, w) == Widen(x).r = w.r /\ (Widen(x).q - w.q) % 2 = 0

\* C16: in every tick, the first of the process or a later one, the running
\* sum is made of the samples of this tick only: it is zero when the tick
\* starts, and as long as the process runs it is the (32-bit) sum of the
\* queue lengths this tick has sampled; the aggregate is that sum, and what a
\* tick that returned Ok emitted is decided by its aggregate and dry_run.
C16_NothingCarriedOver ==
    /\ pc = "get_docker_container_ids"
          => total_queue_len = 0 /\ history = <<>> /\ aggregate = <<>>
    /\ pc # "panicked" => Congruent32(total_queue_len, ExactSum(history))
    /\ aggregate # <<>> => aggregate[1] = total_queue_len
    /\ (pc = "interval_tick" /\ result = "ok")
          => LET what == emission(aggregate[1], dry_run)
             IN  /\ sink = IF what = "send" THEN aggregate ELSE <<>>
                 /\ would_send = IF what = "log" THEN aggregate ELSE <<>>

\* C16's case: after a tick that sent a positive aggregate, a later tick has
\* sampled a container and holds a running sum of its own.
C16_Witness ==
    /\ sink_called /\ sink = <<>> /\ pc = "is_php_fpm_container"
    /\ Sampled /\ LastHandled.sampled = "ok" /\ total_queue_len > 0

\* The strings of d that contain "=" and those that do not, in d's order.
HasEquals(s) == \E k \in 1..Len(s) : s[k] = "="
WithEquals(d) == SelectSeq(d, HasEquals)
WithoutEquals(d) == SelectSeq(d, LAMBDA s : ~HasEquals(s))

\* What stands before and after the first "=" of s.
FirstEquals(s) == CHOOSE k \in 1..Len(s) : s[k] = "=" /\ \A j \in 1..(k - 1) : s[j] # "="
BeforeEquals(s) == SubSeq(s, 1, FirstEquals(s) - 1)
AfterEquals(s) == SubSeq(s, FirstEquals(s) + 1, Len(s))

\* A string without "=" is logged and dropped, and put_metric_data is called
\* with the value all the same.
MalformedOnlyDropped ==
    /\ Len(returned[1].dimensions) = Len(WithEquals(call.dimension))
    /\ returned[1].warned = WithoutEquals(call.dimension)
    /\ returned[1].calls = <<call.value>>

\* C17, as stated: the dimensions of the datum are the pairs (text before
\* the first "=", text after it) of the strings that contain "=", in order;
\* a string without "=" is logged and dropped and changes nothing else.
C17_SplitAtFirstEquals ==
    returned # <<>>
        => /\ MalformedOnlyDropped
           /\ \A k \in 1..Len(WithEquals(call.dimension)) :
                 LET s == WithEquals(call.dimension)[k]
                 IN  returned[1].dimensions[k]
                        = [name |-> BeforeEquals(s), value |-> AfterEquals(s)]

\* C17, amended: the same, with the whitespace around each key and each
\* value removed.
C17_SplitAndTrim ==
    returned # <<>>
        => /\ MalformedOnlyDropped
           /\ \A k \in 1..Len(WithEquals(call.dimension)) :
                 LET s == WithEquals(call.dimension)[k]
                 IN  returned[1].dimensions[k]
                        = [name |-> trim(BeforeEquals(s)),
                           value |-> trim(AfterEquals(s))]

\* C17's case: a list with a string without "=" and a string with blanks
\* around its key and value, of which one dimension was sent.
C17_Witness ==
    /\ returned # <<>>
    /\ Len(call.dimension) = 2
    /\ returned[1].warned # <<>>
    /\ Len(returned[1].dimensions) = 1
    /\ \E s \in {call.dimension[1], call.dimension[2]} :
          HasEquals(s) /\ BeforeEquals(s) # trim(BeforeEquals(s))

\* The sampler returned Ok for the container handled last, from a listing
\* that was obtained and is UTF-8.
SampledFromListing ==
    /\ Sampled /\ LastHandled.sampled = "ok"
    /\ io.ss # <<>> /\ io.ss[1].spawn /\ io.ss[1].success
    /\ from_utf8_ok(io.ss[1].stdout)

\* C18: the sample is determined by the first line of the listing that
\* matches the socket path and by no later line: it is that line's third
\* field when the field is an integer, and zero when the field is missing or
\* unparseable, whatever the lines after it hold.
C18_FirstMatchOnly ==
    (SampledFromListing /\ MatchingLines(io.ss[1].stdout) # <<>>)
        => LET field == parse_i32(ThirdField(MatchingLines(io.ss[1].stdout)[1]))
           IN  LastHandled.queue_len = IF field.ok THEN field.val ELSE 0

\* The socket path of a listing line: the fifth column of `ss -lxnH` (Netid,
\* State, Recv-Q, Send-Q, Local Address), <<>> when the line has none.
SocketPathOf(line) ==
    IF Len(split_whitespace(line)) >= 5 THEN split_whitespace(line)[5] ELSE <<>>

\* The lines of a listing whose socket path is the well-known path.
LinesOfSocket(text) ==
    SelectSeq(lines(text), LAMBDA line : SocketPathOf(line) = SOCKET_PATH)

\* C19: only a line whose socket path is equal to
\* "/var/run/php-fpm/www.socket" produces the sample: from a listing without
\* such a line, be there lines whose path contains the well-known path or
\* which mention it elsewhere, the sample is zero.
C19_PathEquality ==
    (SampledFromListing /\ LinesOfSocket(io.ss[1].stdout) = <<>>)
        => LastHandled.queue_len = 0

\* The values this tick handed to put_metric_data or logged as "Would send".
Emitted == {sink[k] : k \in 1..Len(sink)} \cup {would_send[k] : k \in 1..Len(would_send)}

\* C20: a value that a tick sends or logs is the sum of the queue lengths of
\* all the enumerated containers that were classified as php-fpm, every
\* enumerated container having been handled; and a tick in which the
\* enumeration, a classification or a sampling returned an error emits
\* nothing.
C20_AllOrNothing ==
    /\ \A v \in Emitted :
          /\ Len(history) = Len(container_ids)
          /\ \A k \in 1..Len(history) :
                (history[k].classified = "true") <=> (history[k].sampled = "ok")
          /\ Widen(v) = ExactSum(history)
    /\ (EnumerationFailed \/ FailedContainers # {}) => Emitted = {}
====
